---- MODULE Spec2Model ----
(***************************************************************************)
(* Flip Man (src/src/main.cpp): the per-frame simulation loop of main().    *)
(*                                                                         *)
(* Numbers are fixed point, so that every product of the loop is exact:    *)
(*   time      milliseconds            (dt = 50 is the code's 0.05 s)       *)
(*   position  1/10000 pixel           (Px(n) is n pixels)                  *)
(*   velocity  1/10 pixel per second   (Vel(n) is n pixels per second)      *)
(*   angle     1/100 degree            (Deg(n) is n degrees)                *)
(* so x += vx*dt is x + vx*dt, vy += gravity*dir*dt is                     *)
(* vy + Vel(gravity)*dir*dt \div 1000 and angle += angleSpeed*dt is         *)
(* angle + Deg(angleSpeed)*dt \div 1000, all without remainder.  The        *)
(* rounding of the code's 32-bit floats is not modelled.                    *)
(***************************************************************************)
EXTENDS Integers, Sequences, FiniteSets, TLC

VARIABLES
    pc,           \* position in main(): poll, animate, integrate,
                  \* collide, clamp, render, exit, done
    running,      \* line 104
    kb,           \* the scancodes SDL_GetKeyboardState reports as held
    vx, vy,       \* lines 67-68
    gravityDir,   \* line 71
    playerAngle,  \* line 78
    targetAngle,  \* line 79
    px, py,       \* player.x, player.y of line 65 (w and h never change)
    oldX, oldY,   \* lines 164-165
    lastTicks,    \* line 103
    nowTicks,     \* line 144
    dt,           \* line 145
    wi,           \* the collision loop of line 172: index of the next wall
    axis,         \* branch the last wall resolution took: "V", "H" or "none"
    movedX,       \* player.x right after line 168
    movedY,       \* player.y right after line 169
    movedVy,      \* vy right after line 161
    edgeHit,      \* the build's SDL_HasRectIntersectionFloat holds for rectangles
                  \* that share an edge only
    spaceHeld,    \* the input collaborator: the Space key is physically down
    loaded,       \* the images LoadBMPTexture returned a texture for, lines 54-56
    drawn,        \* what the last render drew for background, walls and player
    ref,          \* the simulation state of the geometry-only run on the same
                  \* inputs, advanced one whole frame when a frame's inputs are known
    quitSeen,     \* the input collaborator: a window-close event or an Escape
                  \* key-down has been delivered
    pressFlips,   \* flips handled since the last down-transition of Space
    frameFlips,   \* flips handled in this iteration of the loop
    fullSteps,    \* rotation steps with dt = 0.05 s taken since the last flip,
                  \* counted up to FullTurnFrames
    vyAtFlip,     \* vy as the last flip of this iteration found it
    flips,        \* flips handled since the program started
    evCount,      \* events the event loop of this iteration has polled so far
    frames        \* iterations of the loop completed

vars == <<pc, running, kb, vx, vy, gravityDir, playerAngle, targetAngle,
          px, py, oldX, oldY, lastTicks, nowTicks, dt, wi, axis, movedX, movedY,
          movedVy, edgeHit, vyAtFlip, spaceHeld, quitSeen, loaded, fullSteps, drawn, ref, pressFlips, frameFlips, flips, evCount,
          frames>>

----------------------------------------------------------------------------
\* Units

Px(n) == n * 10000

Vel(n) == n * 10

Deg(n) == n * 100

Min(a, b) == IF a < b THEN a ELSE b

Abs(a) == IF a < 0 THEN 0 - a ELSE a

----------------------------------------------------------------------------
\* Bounds of the model

\* iterations of the main loop explored by Spec
MaxFrames == 2

\* events one SDL_PollEvent loop delivers
MaxEvents == 2

\* auto-repeat key-down events delivered for one press
MaxRepeats == 2

\* iterations of the main loop explored by SpecLong
MaxFramesLong == 17

\* gravity flips explored by SpecLong
MaxFlipsLong == 2

\* iterations of the main loop explored by SpecWalk
MaxFramesWalk == 35

\* iterations of the main loop explored by SpecSpin
MaxFramesSpin == 15

\* iterations of the main loop explored by SpecQuit
MaxFramesQuit == 3

\* iterations of the main loop explored by SpecAssets
MaxFramesAssets == 2

\* iterations of the main loop explored by SpecKeys
MaxFramesKeys == 2

\* iterations of the main loop explored by SpecAngles
MaxFramesAngles == 3

\* iterations of the main loop explored by SpecTurn
MaxFramesTurn == 11

\* iterations of the main loop in which SpecTurn lets Space events arrive
MaxFlipFramesTurn == 2

----------------------------------------------------------------------------
\* Program constants

screenW == 800

screenH == 600

playerW == 40

playerH == 60

gravity == 900

moveSpeed == 240

angleSpeed == 720

tileW == 64

tileH == 40

\* 0.05 s, in milliseconds
maxDt == 50

\* frames of 0.05 s that turn the player by 180 degrees at angleSpeed
FullTurnFrames == Deg(180) \div ((Deg(angleSpeed) * maxDt) \div 1000)

Rect(x, y, w, h) == [x |-> Px(x), y |-> Px(y), w |-> Px(w), h |-> Px(h)]

\* for (x = 0; x < 800; x += tileW): 13 tiles, the last one from 768 to 832
tileCount == (screenW + tileW - 1) \div tileW

floorTiles == [i \in 1..tileCount |-> Rect((i - 1) * tileW, screenH - tileH, tileW, tileH)]

ceilingTiles == [i \in 1..tileCount |-> Rect((i - 1) * tileW, 0, tileW, tileH)]

platforms == <<Rect(200, screenH - 160, 128, 32), Rect(500, screenH - 260, 128, 32)>>

walls == floorTiles \o ceilingTiles \o platforms

----------------------------------------------------------------------------
\* Input collaborator: the events SDL_PollEvent can return

Ev(t, k, d, r) == [type |-> t, key |-> k, down |-> d, repeat |-> r]

QuitEvent == Ev("QUIT", "NONE", FALSE, FALSE)

EscapeDown == Ev("KEY_DOWN", "ESCAPE", TRUE, FALSE)

SpaceDown == Ev("KEY_DOWN", "SPACE", TRUE, FALSE)

\* the key-down event SDL repeats while the key stays held
SpaceRepeat == Ev("KEY_DOWN", "SPACE", TRUE, TRUE)

SpaceUp == Ev("KEY_UP", "SPACE", FALSE, FALSE)

\* any event the loop has no handler for
MouseMotion == Ev("MOUSE_MOTION", "NONE", FALSE, FALSE)

Events == {QuitEvent, EscapeDown, SpaceDown, SpaceRepeat, SpaceUp, MouseMotion}

\* A first key-down needs the key up, a repeat or a key-up needs it held.
Deliverable(ev) ==
    /\ ev = SpaceDown => ~spaceHeld
    /\ ev = SpaceRepeat => spaceHeld /\ pressFlips <= MaxRepeats
    /\ ev = SpaceUp => spaceHeld

HeldAfter(ev) ==
    IF ev = SpaceDown THEN TRUE ELSE IF ev = SpaceUp THEN FALSE ELSE spaceHeld

\* the keyboard snapshots and the tick differences the frames are given
KbChoices == {{}, {"A"}, {"LEFT", "D"}}

RawChoices == {0, 16, 500}

----------------------------------------------------------------------------
\* The event handlers, lines 112-134

\* a handler that forgets the Escape key
IsQuitRequestCloseOnly(ev) == ev.type = "QUIT"

IsQuitRequest(ev) ==
    \/ ev.type = "QUIT"
    \/ ev.type = "KEY_DOWN" /\ ev.key = "ESCAPE" /\ ev.down

IsFlipRequest(ev) == ev.type = "KEY_DOWN" /\ ev.key = "SPACE" /\ ev.down

\* a flip that sets gravity upward instead of negating it
FlipDirSetsUp(d) == 0 - 1

\* gravityDir *= -1.f, line 120
FlipDir(d) == d * (-1)

\* a flip that keeps the vertical velocity
ResetVyKeeps(v) == v

\* vy = 0.f, line 123
ResetVy(v) == 0

TargetFor(d) == IF d > 0 THEN Deg(0) ELSE Deg(180)

HandleEvent(ev) ==
    /\ pc = "poll"
    /\ evCount < MaxEvents
    /\ Deliverable(ev)
    /\ evCount' = evCount + 1
    /\ spaceHeld' = HeldAfter(ev)
    /\ quitSeen' = (quitSeen \/ ev \in {QuitEvent, EscapeDown})
    /\ running' = IF IsQuitRequest(ev) THEN FALSE ELSE running
    /\ IF IsFlipRequest(ev)
       THEN /\ gravityDir' = FlipDir(gravityDir)
            /\ vy' = ResetVy(vy)
            /\ targetAngle' = TargetFor(gravityDir')
            /\ frameFlips' = frameFlips + 1
            /\ vyAtFlip' = vy
            /\ flips' = flips + 1
            /\ fullSteps' = 0
            /\ pressFlips' = (IF ev = SpaceDown THEN 0 ELSE pressFlips) + 1
       ELSE /\ UNCHANGED <<gravityDir, vy, targetAngle, frameFlips, vyAtFlip, flips,
                           fullSteps>>
            /\ pressFlips' = IF ev = SpaceDown THEN 0 ELSE pressFlips
    /\ UNCHANGED <<pc, kb, vx, playerAngle, px, py, oldX, oldY, lastTicks,
                   nowTicks, dt, wi, axis, movedX, movedY, movedVy, edgeHit, loaded,
                   drawn, ref, frames>>

----------------------------------------------------------------------------
\* Keyboard snapshot and clock, lines 137-149

\* a mapping in which the left keys win over the right keys
VxForLeftWins(keys) ==
    LET right == IF "D" \in keys \/ "RIGHT" \in keys THEN Vel(moveSpeed) ELSE 0
    IN  IF "A" \in keys \/ "LEFT" \in keys THEN 0 - Vel(moveSpeed) ELSE right

VxFor(keys) ==
    LET left == IF "A" \in keys \/ "LEFT" \in keys THEN 0 - Vel(moveSpeed) ELSE 0
    IN  IF "D" \in keys \/ "RIGHT" \in keys THEN Vel(moveSpeed) ELSE left

\* a clock without the safety clamp
ClampDtMissing(raw) == raw

ClampDt(raw) == IF raw > maxDt THEN maxDt ELSE raw

----------------------------------------------------------------------------
\* Rotation animation, lines 151-158

\* a rotation step that only turns toward a larger angle
StepAngleUpOnly(a, t, d) ==
    LET step == (Deg(angleSpeed) * d) \div 1000
    IN  IF a < t THEN (IF a + step > t THEN t ELSE a + step) ELSE a

\* a rotation step that stops short when a whole step would pass the target
StepAngleStopsShort(a, t, d) ==
    LET step == (Deg(angleSpeed) * d) \div 1000
    IN  IF a < t
        THEN (IF a + step > t THEN a ELSE a + step)
        ELSE IF a > t
             THEN (IF a - step < t THEN a ELSE a - step)
             ELSE a

\* a rotation step without the clamp to the target
StepAngleOvershoots(a, t, d) ==
    LET step == (Deg(angleSpeed) * d) \div 1000
    IN  IF a < t THEN a + step ELSE IF a > t THEN a - step ELSE a

StepAngle(a, t, d) ==
    LET step == (Deg(angleSpeed) * d) \div 1000
    IN  IF a < t
        THEN (IF a + step > t THEN t ELSE a + step)
        ELSE IF a > t
             THEN (IF a - step < t THEN t ELSE a - step)
             ELSE a

\* a rotation step that holds the player in the air while it turns
AnimateHoldsStill ==
    /\ pc = "animate"
    /\ playerAngle' = StepAngle(playerAngle, targetAngle, dt)
    /\ vy' = (IF playerAngle # targetAngle THEN 0 ELSE vy)
    /\ fullSteps' = (IF dt = maxDt THEN Min(fullSteps + 1, FullTurnFrames) ELSE fullSteps)
    /\ pc' = "integrate"
    /\ UNCHANGED <<running, kb, vx, gravityDir, targetAngle, px, py,
                   oldX, oldY, lastTicks, nowTicks, dt, wi, axis, movedX, movedY,
                   movedVy, edgeHit, vyAtFlip, spaceHeld, quitSeen, loaded, drawn, ref,
                   pressFlips, frameFlips, flips, evCount, frames>>

Animate ==
    /\ pc = "animate"
    /\ playerAngle' = StepAngle(playerAngle, targetAngle, dt)
    /\ fullSteps' = (IF dt = maxDt THEN Min(fullSteps + 1, FullTurnFrames) ELSE fullSteps)
    /\ pc' = "integrate"
    /\ UNCHANGED <<running, kb, vx, vy, gravityDir, targetAngle, px, py,
                   oldX, oldY, lastTicks, nowTicks, dt, wi, axis, movedX, movedY,
                   movedVy, edgeHit, vyAtFlip, spaceHeld, quitSeen, loaded, drawn, ref,
                   pressFlips, frameFlips, flips, evCount, frames>>

----------------------------------------------------------------------------
\* Gravity, saved position and move, lines 160-169

ApplyGravity(v, dir, d) == v + (Vel(gravity) * dir * d) \div 1000

\* a frame step that moves before gravity is applied
IntegrateMoveFirst ==
    /\ pc = "integrate"
    /\ oldX' = px
    /\ oldY' = py
    /\ px' = px + vx * dt
    /\ py' = py + vy * dt
    /\ vy' = ApplyGravity(vy, gravityDir, dt)
    /\ movedX' = px'
    /\ movedY' = py'
    /\ movedVy' = vy'
    /\ wi' = 1
    /\ axis' = "none"
    /\ pc' = "collide"
    /\ UNCHANGED <<running, kb, vx, gravityDir, playerAngle, targetAngle,
                   lastTicks, nowTicks, dt, edgeHit, vyAtFlip, spaceHeld, quitSeen,
                   loaded, fullSteps, drawn, ref, pressFlips, frameFlips,
                   flips, evCount, frames>>

Integrate ==
    /\ pc = "integrate"
    /\ vy' = ApplyGravity(vy, gravityDir, dt)
    /\ oldX' = px
    /\ oldY' = py
    /\ px' = px + vx * dt
    /\ py' = py + vy' * dt
    /\ movedX' = px'
    /\ movedY' = py'
    /\ movedVy' = vy'
    /\ wi' = 1
    /\ axis' = "none"
    /\ pc' = "collide"
    /\ UNCHANGED <<running, kb, vx, gravityDir, playerAngle, targetAngle,
                   lastTicks, nowTicks, dt, edgeHit, vyAtFlip, spaceHeld, quitSeen, loaded, fullSteps, drawn, ref, pressFlips, frameFlips,
                   flips, evCount, frames>>

----------------------------------------------------------------------------
\* Collision handling, lines 172-210

\* SDL_HasRectIntersectionFloat(&player, &w): the projections on both axes
\* overlap.  The library is not part of the repository; whether two rectangles
\* that share an edge count is left to the build (edge TRUE: the overlap may
\* be empty, edge FALSE: it has positive extent).
Intersects(x, y, w, edge) ==
    IF edge
    THEN /\ x <= w.x + w.w
         /\ w.x <= x + Px(playerW)
         /\ y <= w.y + w.h
         /\ w.y <= y + Px(playerH)
    ELSE /\ x < w.x + w.w
         /\ w.x < x + Px(playerW)
         /\ y < w.y + w.h
         /\ w.y < y + Px(playerH)

MinHoriz(x, w) == Min((x + Px(playerW)) - w.x, (w.x + w.w) - x)

MinVert(y, w) == Min((y + Px(playerH)) - w.y, (w.y + w.h) - y)

\* a tie-break that picks the axis of the larger overlap
VerticalFirstSwapped(p, w) == MinHoriz(p.x, w) < MinVert(p.y, w)

\* the tie-break of line 187; p is the player [x, y, vx, vy]
VerticalFirst(p, w) == MinVert(p.y, w) < MinHoriz(p.x, w)

\* the vertical branch, lines 188-197; oy is the saved oldY
ResolveVertical(p, w, oy) ==
    IF p.y > oy
    THEN [x |-> p.x, y |-> w.y - Px(playerH), vx |-> p.vx, vy |-> 0, axis |-> "V"]
    ELSE IF p.y < oy
         THEN [x |-> p.x, y |-> w.y + w.h, vx |-> p.vx, vy |-> 0, axis |-> "V"]
         ELSE [x |-> p.x, y |-> p.y, vx |-> p.vx, vy |-> p.vy, axis |-> "V"]

\* a horizontal branch whose second test is a plain else
ResolveHorizontalElse(p, w, ox) ==
    IF p.x > ox
    THEN [x |-> w.x - Px(playerW), y |-> p.y, vx |-> 0, vy |-> p.vy, axis |-> "H"]
    ELSE [x |-> w.x + w.w, y |-> p.y, vx |-> 0, vy |-> p.vy, axis |-> "H"]

\* the horizontal branch, lines 199-207; ox is the saved oldX
ResolveHorizontal(p, w, ox) ==
    IF p.x > ox
    THEN [x |-> w.x - Px(playerW), y |-> p.y, vx |-> 0, vy |-> p.vy, axis |-> "H"]
    ELSE IF p.x < ox
         THEN [x |-> w.x + w.w, y |-> p.y, vx |-> 0, vy |-> p.vy, axis |-> "H"]
         ELSE [x |-> p.x, y |-> p.y, vx |-> 0, vy |-> p.vy, axis |-> "H"]

\* the body of the loop for one intersecting wall w, lines 174-208
ResolveWall(p, w, ox, oy) ==
    IF VerticalFirst(p, w)
    THEN ResolveVertical(p, w, oy)
    ELSE ResolveHorizontal(p, w, ox)

\* the collision loop as a function: the walls ws[i], ws[i+1], ... resolved
\* one after the other, each against the player as the walls before it left it
RECURSIVE ResolveFrom(_, _, _, _, _)
ResolveFrom(p, ws, i, ox, oy) ==
    IF i > Len(ws)
    THEN p
    ELSE ResolveFrom(IF Intersects(p.x, p.y, ws[i], edgeHit)
                     THEN ResolveWall(p, ws[i], ox, oy)
                     ELSE p,
                     ws, i + 1, ox, oy)

\* the walls from index i on that the player at (x, y) intersects
HitsFrom(i, x, y) == {j \in i..Len(walls) : Intersects(x, y, walls[j], edgeHit)}

\* a loop that goes to the last intersecting wall first
NextHitLast(i, x, y) == CHOOSE j \in HitsFrom(i, x, y) : \A k \in HitsFrom(i, x, y) : j >= k

\* the first of them: the iterations before it leave the player alone
NextHit(i, x, y) == CHOOSE j \in HitsFrom(i, x, y) : \A k \in HitsFrom(i, x, y) : j <= k

\* the collision loop from wall i on, run to its end
RECURSIVE ResolveHits(_, _, _, _)
ResolveHits(p, i, ox, oy) ==
    IF HitsFrom(i, p.x, p.y) = {}
    THEN p
    ELSE LET j == NextHit(i, p.x, p.y)
         IN  ResolveHits(ResolveWall(p, walls[j], ox, oy), j + 1, ox, oy)

\* the loop advances to the next wall the player intersects and resolves it
CollideWall ==
    /\ pc = "collide"
    /\ HitsFrom(wi, px, py) # {}
    /\ LET j == NextHit(wi, px, py)
           r == ResolveWall([x |-> px, y |-> py, vx |-> vx, vy |-> vy],
                            walls[j], oldX, oldY)
       IN  /\ px' = r.x
           /\ py' = r.y
           /\ vx' = r.vx
           /\ vy' = r.vy
           /\ axis' = r.axis
           /\ wi' = j + 1
    /\ UNCHANGED <<pc, running, kb, gravityDir, playerAngle, targetAngle,
                   oldX, oldY, lastTicks, nowTicks, dt, movedX, movedY, movedVy,
                   edgeHit, vyAtFlip, spaceHeld, quitSeen, loaded, fullSteps, drawn, ref, pressFlips, frameFlips, flips, evCount, frames>>

\* no wall is left that the player intersects: the loop ends
CollideDone ==
    /\ pc = "collide"
    /\ HitsFrom(wi, px, py) = {}
    /\ wi' = Len(walls) + 1
    /\ pc' = "clamp"
    /\ UNCHANGED <<running, kb, vx, vy, gravityDir, playerAngle, targetAngle,
                   px, py, oldX, oldY, lastTicks, nowTicks, dt, axis, movedX,
                   movedY, movedVy, edgeHit, vyAtFlip, spaceHeld, quitSeen, loaded, fullSteps, drawn, ref, pressFlips, frameFlips, flips, evCount,
                   frames>>

----------------------------------------------------------------------------
\* Horizontal screen clamp, lines 212-214

\* a clamp that forgets the right edge of the screen
ClampXLeftOnly(x) == IF x < Px(0) THEN Px(0) ELSE x

ClampX(x) ==
    LET a == IF x < Px(0) THEN Px(0) ELSE x
    IN  IF a + Px(playerW) > Px(screenW) THEN Px(screenW) - Px(playerW) ELSE a

Clamp ==
    /\ pc = "clamp"
    /\ px' = ClampX(px)
    /\ pc' = "render"
    /\ UNCHANGED <<running, kb, vx, vy, gravityDir, playerAngle, targetAngle,
                   py, oldX, oldY, lastTicks, nowTicks, dt, wi, axis, movedX,
                   movedY, movedVy, edgeHit, vyAtFlip, spaceHeld, quitSeen, loaded, fullSteps, drawn, ref, pressFlips, frameFlips, flips, evCount,
                   frames>>

----------------------------------------------------------------------------
\* One iteration of the loop as a function of the simulation state s, the
\* number n of flip requests its event loop handled, the keyboard snapshot
\* and the clamped dt: lines 111-214 without the textures and the renderer.

Sim == [x |-> px, y |-> py, vx |-> vx, vy |-> vy, dir |-> gravityDir,
        angle |-> playerAngle, target |-> targetAngle]

RECURSIVE Flipped(_, _)
Flipped(s, n) ==
    IF n = 0
    THEN s
    ELSE Flipped([s EXCEPT !.dir = FlipDir(s.dir),
                           !.vy = ResetVy(s.vy),
                           !.target = TargetFor(FlipDir(s.dir))], n - 1)

FrameStep(s, n, keys, d) ==
    LET f == Flipped(s, n)
        ux == VxFor(keys)
        uy == ApplyGravity(f.vy, f.dir, d)
        moved == [x |-> f.x + ux * d, y |-> f.y + uy * d, vx |-> ux, vy |-> uy,
                  axis |-> "none"]
        r == ResolveHits(moved, 1, f.x, f.y)
    IN  [x |-> ClampX(r.x), y |-> r.y, vx |-> r.vx, vy |-> r.vy, dir |-> f.dir,
         angle |-> StepAngle(f.angle, f.target, d), target |-> f.target]

\* SDL_PollEvent returned false: sample the keyboard, read the clock.
ReadInputs(keys, raw) ==
    /\ pc = "poll"
    /\ kb' = keys
    /\ vx' = VxFor(keys)
    /\ nowTicks' = lastTicks + raw
    /\ dt' = ClampDt(nowTicks' - lastTicks)
    /\ lastTicks' = nowTicks'
    /\ evCount' = 0
    /\ pc' = "animate"
    /\ UNCHANGED <<running, vy, gravityDir, playerAngle, targetAngle, px, py,
                   oldX, oldY, wi, axis, movedX, movedY, movedVy, edgeHit,
                   vyAtFlip, spaceHeld, quitSeen, loaded, fullSteps, drawn, pressFlips,
                   frameFlips, flips, frames>>

\* The inputs of the frame are known now, and the geometry-only run takes
\* its whole step.
Sample(keys, raw) ==
    /\ ReadInputs(keys, raw)
    /\ ref' = FrameStep(ref, frameFlips, keys, dt')

\* the same step where the geometry-only run is not followed
SampleOnly(keys, raw) ==
    /\ ReadInputs(keys, raw)
    /\ UNCHANGED ref

----------------------------------------------------------------------------
\* Textures, lines 54-60, and what the render of lines 216-253 draws with them

Assets == {"player", "wall", "background"}

\* a start-up that gives up when an image is missing
EntersLoopAllLoaded(l) == l = Assets

\* lines 58-60 print a message for a missing image and go on
EntersLoop(l) == TRUE

DrawList(l) ==
    [background |-> IF "background" \in l THEN "texture" ELSE "clear",
     walls |-> IF "wall" \in l THEN "texture" ELSE "fill",
     player |-> IF "player" \in l THEN "rotated texture" ELSE "fill"]

----------------------------------------------------------------------------
\* Render and present, lines 216-255; the loop condition of line 108.
\* The locals of the loop body (kb, nowTicks, dt, oldX, oldY) go out of
\* scope here.

Render ==
    /\ pc = "render"
    /\ pc' = IF running THEN "poll" ELSE "exit"
    /\ frames' = frames + 1
    /\ kb' = {}
    /\ nowTicks' = 0
    /\ dt' = 0
    /\ oldX' = 0
    /\ oldY' = 0
    /\ wi' = 1
    /\ axis' = "none"
    /\ movedX' = 0
    /\ movedY' = 0
    /\ movedVy' = 0
    /\ frameFlips' = 0
    /\ vyAtFlip' = 0
    /\ evCount' = 0
    /\ drawn' = DrawList(loaded)
    /\ UNCHANGED <<running, vx, vy, gravityDir, playerAngle, targetAngle, px,
                   py, lastTicks, edgeHit, spaceHeld, quitSeen, loaded, fullSteps, ref,
                   pressFlips, flips>>

\* Cleanup, lines 258-268
Cleanup ==
    /\ pc = "exit"
    /\ pc' = "done"
    /\ UNCHANGED <<running, kb, vx, vy, gravityDir, playerAngle, targetAngle,
                   px, py, oldX, oldY, lastTicks, nowTicks, dt, wi, axis, movedX,
                   movedY, movedVy, edgeHit, vyAtFlip, spaceHeld, quitSeen, loaded, fullSteps, drawn, ref, pressFlips, frameFlips, flips, evCount,
                   frames>>

----------------------------------------------------------------------------
\* The state on entering the loop, lines 65-104

\* l: the images that loaded; a: the angle the geometry-only run starts from
StartAt(l, a) ==
    /\ pc = (IF EntersLoop(l) THEN "poll" ELSE "done")
    /\ running = TRUE
    /\ kb = {}
    /\ vx = 0
    /\ vy = 0
    /\ gravityDir = 1
    /\ playerAngle = Deg(0)
    /\ targetAngle = Deg(0)
    /\ px = Px(380)
    /\ py = Px(520)
    /\ oldX = 0
    /\ oldY = 0
    /\ lastTicks = 0
    /\ nowTicks = 0
    /\ dt = 0
    /\ wi = 1
    /\ axis = "none"
    /\ movedX = 0
    /\ movedY = 0
    /\ movedVy = 0
    /\ edgeHit \in BOOLEAN
    /\ spaceHeld = FALSE
    /\ quitSeen = FALSE
    /\ loaded = l
    /\ fullSteps = 0
    /\ drawn = [background |-> "none", walls |-> "none", player |-> "none"]
    /\ ref = [x |-> Px(380), y |-> Px(520), vx |-> 0, vy |-> 0, dir |-> 1,
              angle |-> a, target |-> Deg(0)]
    /\ pressFlips = 0
    /\ frameFlips = 0
    /\ vyAtFlip = 0
    /\ flips = 0
    /\ evCount = 0
    /\ frames = 0

Start(l) == StartAt(l, Deg(0))

\* the run with every image on disk
Init == Start(Assets)

\* any of the three images may be missing
InitAssets == \E l \in SUBSET Assets : Start(l)

\* the run of the program beside a geometry-only run that starts turned
AngleChoices == {Deg(0), Deg(45), Deg(90), Deg(180)}

InitAngles == \E a \in AngleChoices : StartAt(Assets, a)

\* One iteration of the event loop of line 111, and the rest of the frame
\* once the queue is empty.
PollEvent ==
    \E ev \in Events : frames < MaxFrames /\ HandleEvent(ev)

Update ==
    \E keys \in KbChoices, raw \in RawChoices : frames < MaxFrames /\ Sample(keys, raw)

Next ==
    \/ PollEvent
    \/ Update
    \/ Animate
    \/ Integrate
    \/ CollideWall
    \/ CollideDone
    \/ Clamp
    \/ Render
    \/ Cleanup

Spec == Init /\ [][Next]_vars

\* A long run of full-length frames: Space pressed and released a few times,
\* the left key held or not, no quit request.
EventsLong == {SpaceDown, SpaceUp}

KbLong == {{}, {"A"}}

RawLong == {50}

PollEventLong ==
    \E ev \in EventsLong :
        /\ frames < MaxFramesLong
        /\ IsFlipRequest(ev) => flips < MaxFlipsLong
        /\ HandleEvent(ev)

UpdateLong ==
    \E keys \in KbLong, raw \in RawLong : frames < MaxFramesLong /\ Sample(keys, raw)

NextLong ==
    \/ PollEventLong
    \/ UpdateLong
    \/ Animate
    \/ Integrate
    \/ CollideWall
    \/ CollideDone
    \/ Clamp
    \/ Render

SpecLong == Init /\ [][NextLong]_vars

\* A walk along the floor to either end of the screen: a left or a right key
\* held in every frame, every frame a 50 ms step, the window closed at some
\* point.
EventsWalk == {QuitEvent}

KbWalk == {{"A"}, {"RIGHT"}}

RawWalk == {50}

PollEventWalk ==
    \E ev \in EventsWalk : frames < MaxFramesWalk /\ HandleEvent(ev)

UpdateWalk ==
    \E keys \in KbWalk, raw \in RawWalk : frames < MaxFramesWalk /\ Sample(keys, raw)

NextWalk ==
    \/ PollEventWalk
    \/ UpdateWalk
    \/ Animate
    \/ Integrate
    \/ CollideWall
    \/ CollideDone
    \/ Clamp
    \/ Render
    \/ Cleanup

SpecWalk == Init /\ [][NextWalk]_vars

\* Rotations: Space pressed and released at will, no movement key, every
\* frame a 40 ms step (28.8 degrees, which does not divide 180), no quit
\* request.
EventsSpin == {SpaceDown, SpaceUp}

KbSpin == {{}}

RawSpin == {40}

PollEventSpin ==
    \E ev \in EventsSpin : frames < MaxFramesSpin /\ HandleEvent(ev)

UpdateSpin ==
    \E keys \in KbSpin, raw \in RawSpin : frames < MaxFramesSpin /\ Sample(keys, raw)

NextSpin ==
    \/ PollEventSpin
    \/ UpdateSpin
    \/ Animate
    \/ Integrate
    \/ CollideWall
    \/ CollideDone
    \/ Clamp
    \/ Render

SpecSpin == Init /\ [][NextSpin]_vars

\* Quit requests among other events, 16 ms frames.  Every SDL_PollEvent loop
\* comes to an end (the queue is finite) and every step of a frame that has
\* started is taken: the code between lines 137 and 268 has no loop but the
\* bounded ones over the walls.
EventsQuit == {QuitEvent, EscapeDown, SpaceDown, SpaceUp, MouseMotion}

KbQuit == {{}, {"A"}}

RawQuit == {16}

PollEventQuit ==
    \E ev \in EventsQuit : frames < MaxFramesQuit /\ HandleEvent(ev)

UpdateQuit ==
    \E keys \in KbQuit, raw \in RawQuit : frames < MaxFramesQuit /\ SampleOnly(keys, raw)

NextQuit ==
    \/ PollEventQuit
    \/ UpdateQuit
    \/ Animate
    \/ Integrate
    \/ CollideWall
    \/ CollideDone
    \/ Clamp
    \/ Render
    \/ Cleanup

SpecQuit ==
    /\ Init
    /\ [][NextQuit]_vars
    /\ WF_vars(UpdateQuit)
    /\ WF_vars(Animate)
    /\ WF_vars(Integrate)
    /\ WF_vars(CollideWall)
    /\ WF_vars(CollideDone)
    /\ WF_vars(Clamp)
    /\ WF_vars(Render)
    /\ WF_vars(Cleanup)

\* Runs with any subset of the images missing: flips, both directions of
\* walking, short and long frames, a quit request.
EventsAssets == {SpaceDown, SpaceUp, QuitEvent}

KbAssets == {{}, {"A"}, {"D"}}

RawAssets == {16, 50}

PollEventAssets ==
    \E ev \in EventsAssets : frames < MaxFramesAssets /\ HandleEvent(ev)

UpdateAssets ==
    \E keys \in KbAssets, raw \in RawAssets :
        frames < MaxFramesAssets /\ Sample(keys, raw)

NextAssets ==
    \/ PollEventAssets
    \/ UpdateAssets
    \/ Animate
    \/ Integrate
    \/ CollideWall
    \/ CollideDone
    \/ Clamp
    \/ Render
    \/ Cleanup

SpecAssets == InitAssets /\ [][NextAssets]_vars

\* Runs beside a geometry-only run that starts from another angle: flips,
\* walking into the floor tiles, short and long frames.
EventsAngles == {SpaceDown, SpaceUp}

KbAngles == {{}, {"D"}}

RawAngles == {16, 50}

PollEventAngles ==
    \E ev \in EventsAngles : frames < MaxFramesAngles /\ HandleEvent(ev)

UpdateAngles ==
    \E keys \in KbAngles, raw \in RawAngles :
        frames < MaxFramesAngles /\ Sample(keys, raw)

NextAngles ==
    \/ PollEventAngles
    \/ UpdateAngles
    \/ Animate
    \/ Integrate
    \/ CollideWall
    \/ CollideDone
    \/ Clamp
    \/ Render

SpecAngles == InitAngles /\ [][NextAngles]_vars

\* Every combination of the four movement keys, 16 ms frames.
EventsKeys == {MouseMotion, QuitEvent}

KbKeys == SUBSET {"A", "LEFT", "D", "RIGHT"}

RawKeys == {16}

PollEventKeys ==
    \E ev \in EventsKeys : frames < MaxFramesKeys /\ HandleEvent(ev)

UpdateKeys ==
    \E keys \in KbKeys, raw \in RawKeys : frames < MaxFramesKeys /\ Sample(keys, raw)

NextKeys ==
    \/ PollEventKeys
    \/ UpdateKeys
    \/ Animate
    \/ Integrate
    \/ CollideWall
    \/ CollideDone
    \/ Clamp
    \/ Render
    \/ Cleanup

SpecKeys == Init /\ [][NextKeys]_vars

\* Flips in the first iterations only, then frames of 30 or 50 ms that keep
\* coming: every SDL_PollEvent loop ends and every step of a started frame is
\* taken.
EventsTurn == {SpaceDown, SpaceUp}

KbTurn == {{}}

RawTurn == {30, 50}

PollEventTurn ==
    \E ev \in EventsTurn : frames < MaxFlipFramesTurn /\ HandleEvent(ev)

UpdateTurn ==
    \E keys \in KbTurn, raw \in RawTurn : frames < MaxFramesTurn /\ SampleOnly(keys, raw)

NextTurn ==
    \/ PollEventTurn
    \/ UpdateTurn
    \/ Animate
    \/ Integrate
    \/ CollideWall
    \/ CollideDone
    \/ Clamp
    \/ Render

SpecTurn ==
    /\ Init
    /\ [][NextTurn]_vars
    /\ WF_vars(UpdateTurn)
    /\ WF_vars(Animate)
    /\ WF_vars(Integrate)
    /\ WF_vars(CollideWall)
    /\ WF_vars(CollideDone)
    /\ WF_vars(Clamp)
    /\ WF_vars(Render)

----------------------------------------------------------------------------
\* Claims

\* C1: gravityDir is always +1 or -1, every flip event negates it, and
\* targetAngle is 0 when gravityDir = +1 and 180 when gravityDir = -1.
C1_GravitySignDuality ==
    /\ [](/\ gravityDir \in {1, 0 - 1}
          /\ targetAngle = (IF gravityDir = 1 THEN Deg(0) ELSE Deg(180)))
    /\ [][flips' = flips + 1 => gravityDir' = 0 - gravityDir]_vars

\* two flips have been handled and gravity points down again
C1_Witness == flips = 2 /\ gravityDir = 1 /\ targetAngle = Deg(0)

\* C2: one physical press of Space fires the flip exactly once, however many
\* key-down events arrive while the key is held.
C2_FlipOncePerPress == pressFlips <= 1

\* C3 as claimed: in every frame where playerAngle # targetAngle the angle
\* update strictly reduces |playerAngle - targetAngle| without passing the
\* target, for every dt.
C3_AngleStrictlyConverges ==
    [][pc = "animate" /\ playerAngle # targetAngle =>
          /\ Abs(playerAngle' - targetAngle) < Abs(playerAngle - targetAngle)
          /\ playerAngle < targetAngle => playerAngle' <= targetAngle
          /\ playerAngle > targetAngle => playerAngle' >= targetAngle]_vars

\* C3 amended: the angle update strictly reduces |playerAngle - targetAngle|
\* in every frame with dt > 0 and leaves playerAngle unchanged in a frame
\* with dt = 0; it never passes the target; once equal, the two stay equal
\* until the next flip.
C3_AngleConverges ==
    [][/\ pc = "animate" /\ playerAngle # targetAngle =>
             /\ dt > 0 => Abs(playerAngle' - targetAngle) < Abs(playerAngle - targetAngle)
             /\ dt = 0 => playerAngle' = playerAngle
             /\ playerAngle < targetAngle => playerAngle' <= targetAngle
             /\ playerAngle > targetAngle => playerAngle' >= targetAngle
       /\ playerAngle = targetAngle /\ flips' = flips => playerAngle' = targetAngle'
      ]_vars

\* a flip in the first frame (16 ms: 11.52 degrees toward 180), a flip back in
\* the second (50 ms): the step is longer than the angle left, and the clamp
\* has stopped the rotation at 0
C3_Witness ==
    /\ pc = "integrate"
    /\ frames = 1
    /\ flips = 2
    /\ frameFlips = 1
    /\ dt = maxDt
    /\ playerAngle = Deg(0)
    /\ targetAngle = Deg(0)
    /\ lastTicks = 516

\* C4: playerAngle lies in [0, 180] whatever the interleaving of flips and
\* frames.
C4_AngleInRange == Deg(0) <= playerAngle /\ playerAngle <= Deg(180)

\* a second flip arrived while the rotation to 180 was still in progress
C4_Witness ==
    /\ flips = 2
    /\ targetAngle = Deg(0)
    /\ playerAngle > Deg(0)
    /\ playerAngle < Deg(180)

\* C5: a flip leaves vy = 0 whatever it was, and the reset precedes the
\* gravity integration: in a frame with a single flip the vy that moves the
\* player is gravity * newDir * dt.
C5_VelocityResetOnFlip ==
    [][/\ flips' = flips + 1 => vy' = 0
       /\ pc = "integrate" /\ frameFlips = 1 =>
             /\ vy' = (Vel(gravity) * gravityDir * dt) \div 1000
             /\ py' = py + vy' * dt
      ]_vars

\* the single flip of a frame found the player moving (vy # 0), and the
\* frame has moved the player with the vy of one gravity step
C5_Witness ==
    /\ pc = "collide"
    /\ frameFlips = 1
    /\ vyAtFlip # 0
    /\ dt > 0
    /\ movedVy = (Vel(gravity) * gravityDir * dt) \div 1000

\* C6: at the end of every frame, after collision resolution and the
\* boundary post-pass, 0 <= player.x and player.x + player.w <= 800.
C6_AxisClamp ==
    pc = "render" => Px(0) <= px /\ px + Px(playerW) <= Px(800)

\* the move carried the player past the right edge and the frame ends with
\* the player against it
C6_Witness == pc = "render" /\ movedX + Px(playerW) > Px(800) /\ px = Px(760)

\* C7: each frame dt = min((nowTicks - lastTicks)/1000, 0.05) and lastTicks is
\* set to nowTicks; 500 ms of raw time give dt = 50 ms; dt is never above
\* 0.05 s nor negative.
C7_DeltaTimeClamp ==
    /\ [](0 <= dt /\ dt <= 50)
    /\ [][pc = "poll" /\ pc' = "animate" =>
             /\ dt' = Min(nowTicks' - lastTicks, 50)
             /\ lastTicks' = nowTicks'
             /\ nowTicks' - lastTicks = 500 => dt' = 50]_vars

\* the first frame came 500 ms after the start and runs with dt = 50 ms
C7_Witness == pc = "animate" /\ frames = 0 /\ nowTicks = 500 /\ dt = 50

\* C8: when a falling player (vy > 0, new y greater than old y) comes to
\* intersect a wall directly below it (the wall's top at or under the player's
\* old bottom edge, the wall under the player before the move and
\* overlapping it with positive extent after the move), the frame's collision
\* resolution ends with player.y = wallTop - player.h and vy = 0.
C8_LandingOnWallBelow ==
    pc = "clamp" /\ movedVy > 0 /\ movedY > oldY =>
        \A j \in 1..Len(walls) :
            /\ Intersects(movedX, movedY, walls[j], FALSE)
            /\ oldY + Px(playerH) <= walls[j].y
            /\ oldX < walls[j].x + walls[j].w
            /\ walls[j].x < oldX + Px(playerW)
            => py = walls[j].y - Px(playerH) /\ vy = 0

\* C9: an intersecting wall is resolved along the vertical axis iff
\* minVert < minHoriz and along the horizontal axis otherwise, and the
\* resolution changes the position and velocity of the chosen axis only.
C9_LeastPenetrationTieBreak ==
    [][pc = "collide" /\ HitsFrom(wi, px, py) # {} =>
          LET w == walls[NextHit(wi, px, py)]
              minHoriz == Min((px + Px(playerW)) - w.x, (w.x + w.w) - px)
              minVert == Min((py + Px(playerH)) - w.y, (w.y + w.h) - py)
          IN  /\ minVert < minHoriz => axis' = "V" /\ px' = px /\ vx' = vx
              /\ minVert >= minHoriz => axis' = "H" /\ py' = py /\ vy' = vy]_vars

\* a wall was resolved horizontally: the player was pushed back along x with
\* y and vy as the move left them
C9_Witness ==
    /\ pc = "collide"
    /\ axis = "H"
    /\ px # movedX
    /\ py = movedY
    /\ vy = movedVy
    /\ vy # 0
    /\ vx = 0

\* C10 as claimed: resolving a wall the player overlaps in a frame in which
\* its position changed on neither axis changes none of player.x, player.y,
\* vx and vy.
C10_NoOpWhenStill ==
    [][pc = "collide" /\ HitsFrom(wi, px, py) # {} /\ px = oldX /\ py = oldY =>
          px' = px /\ py' = py /\ vx' = vx /\ vy' = vy]_vars

\* C10 amended: resolving a wall the player overlaps in a frame in which its
\* position changed on neither axis changes none of player.x, player.y and
\* vy; vx is unchanged when the vertical axis is selected and set to 0 when
\* the horizontal axis is selected.
C10_NoCorrectionWhenStill ==
    [][pc = "collide" /\ HitsFrom(wi, px, py) # {} /\ px = oldX /\ py = oldY =>
          LET w == walls[NextHit(wi, px, py)]
              minHoriz == Min((px + Px(playerW)) - w.x, (w.x + w.w) - px)
              minVert == Min((py + Px(playerH)) - w.y, (w.y + w.h) - py)
          IN  /\ px' = px
              /\ py' = py
              /\ vy' = vy
              /\ vx' = (IF minVert < minHoriz THEN vx ELSE 0)]_vars

\* a frame with dt = 0 and a movement key held: the player did not move, a
\* wall it overlaps was resolved horizontally and vx is 0
C10_Witness ==
    /\ pc = "collide"
    /\ wi > 1
    /\ axis = "H"
    /\ dt = 0
    /\ kb # {}
    /\ px = oldX
    /\ py = oldY
    /\ vx = 0

\* C11: the loop terminates on a quit request (window-close event or Escape
\* key-down) and only then; the frame in which the request is seen runs its
\* simulation step and render to completion, and no input is sampled for a
\* following frame.
C11_QuitHandling ==
    /\ [](running <=> ~quitSeen)
    /\ [](pc \in {"exit", "done"} => quitSeen)
    /\ quitSeen ~> (pc = "done")
    /\ [][/\ quitSeen' /\ ~quitSeen => pc = "poll" /\ pc' = "poll"
          /\ quitSeen /\ pc = "poll" /\ pc' # "poll" => pc' = "animate"
          /\ pc' = "exit" => pc = "render" /\ frames' = frames + 1
          /\ quitSeen /\ pc = "render" => pc' = "exit"
          /\ pc \in {"exit", "done"} =>
                UNCHANGED <<kb, evCount, frames, px, py, vx, vy, gravityDir,
                            playerAngle, targetAngle, lastTicks>>
         ]_vars

\* Escape was pressed in the first iteration: its simulation step has put the
\* player on the floor, it was rendered, and the program has ended
C11_Witness ==
    /\ pc = "done"
    /\ quitSeen
    /\ frames = 1
    /\ py = Px(500)
    /\ lastTicks = 16
\* C12: whichever of the three images fail to load, the program enters the
\* main loop and leaves it only on a quit request, every render draws the
\* fallback for a missing image, and after every frame the simulation state
\* (player rect, vx, vy, gravityDir, playerAngle, targetAngle) is that of the
\* run on the same inputs that does not look at the images.
C12_AssetsDoNotAffectSimulation ==
    /\ pc \in {"exit", "done"} => quitSeen
    /\ frames > 0 => drawn = DrawList(loaded)
    /\ pc \in {"poll", "exit", "done"} /\ frameFlips = 0 => Sim = ref

\* no image loaded: two frames drawn with the fallbacks, gravity flipped,
\* the player off the floor
C12_Witness ==
    /\ loaded = {}
    /\ pc = "poll"
    /\ frames = 2
    /\ frameFlips = 0
    /\ gravityDir = 0 - 1
    /\ py < Px(500)
    /\ drawn.player = "fill"
    /\ Sim = ref
\* C13: each frame vx is set from the keyboard snapshot only: -moveSpeed when
\* A or Left is held and neither D nor Right is, +moveSpeed whenever D or
\* Right is held (also with a left key held), 0 when none of the four is held.
C13_InputMapping ==
    [][pc = "poll" /\ pc' = "animate" =>
          LET left == "A" \in kb' \/ "LEFT" \in kb'
              right == "D" \in kb' \/ "RIGHT" \in kb'
          IN  /\ left /\ ~right => vx' = 0 - Vel(240)
              /\ right => vx' = Vel(240)
              /\ ~left /\ ~right => vx' = 0]_vars

\* the second frame samples Left and D together and moves right
C13_Witness ==
    /\ pc = "animate"
    /\ frames = 1
    /\ kb = {"LEFT", "D"}
    /\ vx = Vel(240)
\* C14: the walls are processed one at a time in list order, each wall's
\* intersection test and overlaps taken at the position the earlier walls
\* left: when the collision loop has ended, player.x, player.y, vx and vy are
\* the left-to-right fold of the per-wall resolution over the wall list,
\* started from the position and velocities right after the move.
C14_SequentialResolution ==
    pc \in {"clamp", "render"} =>
        LET moved == [x |-> movedX, y |-> movedY, vx |-> VxFor(kb), vy |-> movedVy,
                      axis |-> "none"]
            r == ResolveFrom(moved, walls, 1, oldX, oldY)
        IN  /\ px = (IF pc = "clamp" THEN r.x ELSE ClampX(r.x))
            /\ py = r.y
            /\ vx = r.vx
            /\ vy = r.vy

\* the order matters: the loop has ended on the fold over the list as built,
\* and the fold over the reversed list ends somewhere else
C14_Witness ==
    /\ pc = "clamp"
    /\ LET moved == [x |-> movedX, y |-> movedY, vx |-> VxFor(kb), vy |-> movedVy,
                     axis |-> "none"]
           back == [i \in 1..Len(walls) |-> walls[Len(walls) + 1 - i]]
           r == ResolveFrom(moved, walls, 1, oldX, oldY)
           q == ResolveFrom(moved, back, 1, oldX, oldY)
       IN  /\ px = r.x /\ py = r.y
           /\ <<q.x, q.y>> # <<r.x, r.y>>
\* C15: whenever the resolution of a wall moves the player, the move is along
\* the axis of least penetration and its length is that axis's minimum
\* overlap: minVert for a vertical snap, minHoriz for a horizontal snap.
C15_SmallestCorrection ==
    [][pc = "collide" /\ HitsFrom(wi, px, py) # {} =>
          LET w == walls[NextHit(wi, px, py)]
              minHoriz == Min((px + Px(playerW)) - w.x, (w.x + w.w) - px)
              minVert == Min((py + Px(playerH)) - w.y, (w.y + w.h) - py)
          IN  /\ px' # px => minHoriz <= minVert /\ Abs(px' - px) = minHoriz
              /\ py' # py => minVert < minHoriz /\ Abs(py' - py) = minVert]_vars
\* C16: once no further flip occurs and frames keep coming with dt > 0,
\* playerAngle eventually equals targetAngle and stays equal; five frames
\* with dt = 0.05 s after a flip are enough.
C16_RotationCompletes ==
    /\ <>[](playerAngle = targetAngle)
    /\ [](fullSteps >= 5 => playerAngle = targetAngle)
    /\ [][playerAngle = targetAngle /\ flips' = flips => playerAngle' = targetAngle']_vars

\* a flip, then four frames of 0.05 s: 144 of the 180 degrees are done and
\* the fifth frame is about to finish the rotation
C16_Witness ==
    /\ pc = "animate"
    /\ dt = maxDt
    /\ flips = 1
    /\ fullSteps = 4
    /\ playerAngle = Deg(144)
    /\ targetAngle = Deg(180)

\* C17: in every frame gravity is added to vy first, then the position is
\* saved in oldX/oldY, then the player moves by vx*dt and by the updated
\* vy*dt; the collision handling that follows leaves oldX/oldY alone, so each
\* wall is tested against the position the move started from.
C17_IntegrationOrder ==
    /\ [](pc \in {"collide", "clamp", "render"} =>
            /\ movedX = oldX + VxFor(kb) * dt
            /\ movedY = oldY + movedVy * dt)
    /\ [][/\ pc = "integrate" =>
               /\ vy' = vy + (Vel(gravity) * gravityDir * dt) \div 1000
               /\ oldX' = px
               /\ oldY' = py
               /\ px' = px + vx * dt
               /\ py' = py + vy' * dt
          /\ pc \in {"collide", "clamp"} => oldX' = oldX /\ oldY' = oldY]_vars

\* a frame in which the player moved on both axes with a velocity that
\* gravity had changed, and a wall then pushed it away from where the move
\* had taken it
C17_Witness ==
    /\ pc = "clamp"
    /\ dt > 0
    /\ movedVy # 0
    /\ oldX # movedX
    /\ oldY # movedY
    /\ px # movedX
    /\ py # movedY

\* the geometry of a simulation state: player rect position, velocities and
\* gravity direction
Geometry(s) == [x |-> s.x, y |-> s.y, vx |-> s.vx, vy |-> s.vy, dir |-> s.dir]

\* C18: the rotation step changes playerAngle only, and the angles are never
\* read by gravity, move, collision handling or clamp: after every frame the
\* player rect, vx, vy and gravityDir are those of the run on the same inputs
\* that started from another playerAngle.
C18_RotationDecoupled ==
    /\ [](pc \in {"poll", "exit", "done"} /\ frameFlips = 0 =>
            Geometry(Sim) = Geometry(ref))
    /\ [][pc = "animate" =>
            UNCHANGED <<px, py, vx, vy, gravityDir, targetAngle>>]_vars

\* after a flip and three frames the two runs show the player at different
\* angles, both still turning, off the floor and at the same place
C18_Witness ==
    /\ pc = "poll"
    /\ frames = 3
    /\ frameFlips = 0
    /\ flips = 1
    /\ playerAngle # targetAngle
    /\ ref.angle # playerAngle
    /\ ref.angle # ref.target
    /\ py < Px(500)
    /\ px > Px(380)
    /\ Geometry(Sim) = Geometry(ref)

\* C19: at the end of every frame the player rect is inside the vertical
\* range of the screen: player.y >= 0 and player.y + player.h <= 600.
C19_VerticalContainment ==
    pc \in {"render", "poll", "exit", "done"} =>
        /\ py >= Px(0)
        /\ py + Px(playerH) <= Px(screenH)

\* C20: a frame that starts with the player resting on the floor row
\* (player.y = 500, vy = 0, gravity down), without a flip, with a left or
\* right key held and no platform on the path, ends with
\* player.x = clamp(oldX + vx*dt, 0, 800 - player.w) and player.y = 500.
C20_UnobstructedWalking ==
    (/\ pc = "render"
     /\ gravityDir = 1
     /\ frameFlips = 0
     /\ oldY = Px(500)
     /\ movedVy = ApplyGravity(0, 1, dt)
     /\ VxFor(kb) # 0
     /\ \A i \in 1..Len(platforms) :
            /\ ~Intersects(oldX, oldY, platforms[i], TRUE)
            /\ ~Intersects(movedX, movedY, platforms[i], TRUE))
    => /\ px = ClampX(oldX + VxFor(kb) * dt)
       /\ py = Px(500)
====
